---- MODULE Spec2Model ----
(***************************************************************************)
(* Model of sqllogictest-bin/src/engines/postgres_extended.rs: the         *)
(* PostgresExtended engine (connect / run / drop) and its type-driven      *)
(* rendering of result sets.                                               *)
(*                                                                         *)
(* Texts are sequences of one-character strings, so that separators,       *)
(* braces, commas and the characters inside a value are all visible.       *)
(* An Option<T> is <<>> for None and <<v>> for Some(v).                    *)
(***************************************************************************)
EXTENDS Integers, Sequences, FiniteSets, TLC

VARIABLES handle, task, abortRequested, pc, sql, cols, rows, pos, output,
          result, log, outstanding, nruns

vars == <<handle, task, abortRequested, pc, sql, cols, rows, pos, output,
          result, log, outstanding, nruns>>

(***************************************************************************)
(* Bounds of the model                                                     *)
(***************************************************************************)
MaxRows == 2

MaxCols == 2

MaxElems == 2

MaxRuns == 2

(***************************************************************************)
(* Texts                                                                   *)
(***************************************************************************)
Digits == <<"0", "1", "2", "3", "4", "5", "6", "7", "8", "9">>

T_NULL == <<"N", "U", "L", "L">>

T_empty == <<"(", "e", "m", "p", "t", "y", ")">>

T_NaN == <<"N", "a", "N">>

T_Infinity == <<"I", "n", "f", "i", "n", "i", "t", "y">>

None == <<>>

Some(v) == <<v>>

Opt(S) == {None} \cup {Some(v) : v \in S}

RECURSIVE NatText(_)
\* Display of a non-negative integer: its decimal digits.
NatText(n) ==
    IF n < 10 THEN <<Digits[n + 1]>>
    ELSE NatText(n \div 10) \o <<Digits[(n % 10) + 1]>>

\* Display of i16 / i32 / i64.
IntText(i) == IF i < 0 THEN <<"-">> \o NatText(-i) ELSE NatText(i)

RECURSIVE Pow10(_)
Pow10(k) == IF k = 0 THEN 1 ELSE 10 * Pow10(k - 1)

RECURSIVE PadText(_, _)
\* A non-negative integer zero-padded on the left to w digits.
PadText(n, w) ==
    IF w <= 1 THEN NatText(n)
    ELSE IF n < Pow10(w - 1) THEN <<"0">> \o PadText(n, w - 1)
    ELSE NatText(n)

\* Display of rust_decimal::Decimal, a mantissa and a scale: every digit of
\* the scale is printed, no exponent.
DecimalText(d) ==
    LET m == IF d.mant < 0 THEN -d.mant ELSE d.mant
        sign == IF d.mant < 0 THEN <<"-">> ELSE <<>>
    IN  IF d.scale = 0 THEN sign \o NatText(m)
        ELSE sign \o NatText(m \div Pow10(d.scale)) \o <<".">>
                  \o PadText(m % Pow10(d.scale), d.scale)

\* Display of chrono::NaiveDate: YYYY-MM-DD.
DateText(d) ==
    PadText(d.y, 4) \o <<"-">> \o PadText(d.m, 2) \o <<"-">> \o PadText(d.d, 2)

\* Display of chrono::NaiveTime (whole seconds): HH:MM:SS.
TimeText(t) ==
    PadText(t.h, 2) \o <<":">> \o PadText(t.mi, 2) \o <<":">> \o PadText(t.s, 2)

\* Display of chrono::NaiveDateTime: the date, one space, the time.
DateTimeText(dt) == DateText(dt.date) \o <<" ">> \o TimeText(dt.time)

bool_to_str(value) == IF value THEN <<"t">> ELSE <<"f">>

varchar_to_str(value) == IF value = <<>> THEN T_empty ELSE value

\* A float is [k |-> "nan" | "inf" | "ninf"] or a finite value
\* [k |-> "fin", mant, scale]; to_string of a finite float prints its shortest
\* decimal form without an exponent.
float4_to_str(value) ==
    IF value.k = "nan" THEN T_NaN
    ELSE IF value.k = "inf" THEN T_Infinity
    ELSE IF value.k = "ninf" THEN <<"-">> \o T_Infinity
    ELSE DecimalText(value)

float8_to_str(value) ==
    IF value.k = "nan" THEN T_NaN
    ELSE IF value.k = "inf" THEN T_Infinity
    ELSE IF value.k = "ninf" THEN <<"-">> \o T_Infinity
    ELSE DecimalText(value)

(***************************************************************************)
(* Wire types and the match of run over them                               *)
(***************************************************************************)
ScalarTypes ==
    {"INT2", "INT4", "INT8", "NUMERIC", "DATE", "TIME", "TIMESTAMP", "BOOL",
     "VARCHAR", "TEXT", "FLOAT4", "FLOAT8", "INTERVAL", "TIMESTAMPTZ"}

\* The element type of each array type the match names.
ElemOf ==
    [INT2_ARRAY |-> "INT2", INT4_ARRAY |-> "INT4", INT8_ARRAY |-> "INT8",
     BOOL_ARRAY |-> "BOOL", FLOAT4_ARRAY |-> "FLOAT4", FLOAT8_ARRAY |-> "FLOAT8",
     NUMERIC_ARRAY |-> "NUMERIC", DATE_ARRAY |-> "DATE", TIME_ARRAY |-> "TIME",
     TIMESTAMP_ARRAY |-> "TIMESTAMP", VARCHAR_ARRAY |-> "VARCHAR",
     TEXT_ARRAY |-> "TEXT", INTERVAL_ARRAY |-> "INTERVAL",
     TIMESTAMPTZ_ARRAY |-> "TIMESTAMPTZ"]

ArrayTypes == DOMAIN ElemOf

\* Wire types the match has no arm for (they reach the `_` arm).
OtherTypes == {"BYTEA", "JSONB", "UUID_ARRAY"}

SupportedTypes == ScalarTypes \cup ArrayTypes

AllTypes == SupportedTypes \cup OtherTypes

\* An arm of the match: the macro it expands, the Rust type decoded ($t),
\* the converter ($convert) and the type name cast to ($ty_name), "none"
\* where the variant has none.
Arm(macro, t, convert, ty_name) ==
    [macro |-> macro, t |-> t, convert |-> convert, ty_name |-> ty_name]

\* The arms of the match of run that name a type.
KnownArm(ty) ==
    CASE ty = "INT2" -> Arm("single_process", "i16", "none", "none")
      [] ty = "INT4" -> Arm("single_process", "i32", "none", "none")
      [] ty = "INT8" -> Arm("single_process", "i64", "none", "none")
      [] ty = "NUMERIC" -> Arm("single_process", "Decimal", "none", "none")
      [] ty = "DATE" -> Arm("single_process", "NaiveDate", "none", "none")
      [] ty = "TIME" -> Arm("single_process", "NaiveTime", "none", "none")
      [] ty = "TIMESTAMP" -> Arm("single_process", "NaiveDateTime", "none", "none")
      [] ty = "BOOL" -> Arm("single_process", "bool", "bool_to_str", "none")
      [] ty = "INT2_ARRAY" -> Arm("array_process", "i16", "none", "none")
      [] ty = "INT4_ARRAY" -> Arm("array_process", "i32", "none", "none")
      [] ty = "INT8_ARRAY" -> Arm("array_process", "i64", "none", "none")
      [] ty = "BOOL_ARRAY" -> Arm("array_process", "bool", "bool_to_str", "none")
      [] ty = "FLOAT4_ARRAY" -> Arm("array_process", "f32", "float4_to_str", "none")
      [] ty = "FLOAT8_ARRAY" -> Arm("array_process", "f64", "float8_to_str", "none")
      [] ty = "NUMERIC_ARRAY" -> Arm("array_process", "Decimal", "none", "none")
      [] ty = "DATE_ARRAY" -> Arm("array_process", "NaiveDate", "none", "none")
      [] ty = "TIME_ARRAY" -> Arm("array_process", "NaiveTime", "none", "none")
      [] ty = "TIMESTAMP_ARRAY" -> Arm("array_process", "NaiveDateTime", "none", "none")
      [] ty \in {"VARCHAR_ARRAY", "TEXT_ARRAY"} ->
            Arm("array_process", "String", "varchar_to_str", "none")
      [] ty \in {"VARCHAR", "TEXT"} ->
            Arm("single_process", "String", "varchar_to_str", "none")
      [] ty = "FLOAT4" -> Arm("single_process", "f32", "float4_to_str", "none")
      [] ty = "FLOAT8" -> Arm("single_process", "f64", "float8_to_str", "none")
      [] ty = "INTERVAL" -> Arm("single_process", "Interval", "none", "INTERVAL")
      [] ty = "TIMESTAMPTZ" ->
            Arm("single_process", "DateTime<Utc>", "none", "TIMESTAMPTZ")
      [] ty = "INTERVAL_ARRAY" -> Arm("array_process", "Interval", "none", "INTERVAL")
      [] ty = "TIMESTAMPTZ_ARRAY" ->
            Arm("array_process", "DateTime<Utc>", "none", "TIMESTAMPTZ")

\* A match whose `_` arm writes the value as a text instead of failing.
MatchArmGuessText(ty) ==
    IF ty \in SupportedTypes THEN KnownArm(ty)
    ELSE Arm("single_process", "String", "none", "none")

\* The match of run over column.type_(): a named arm, or the `_` arm with
\* todo!().
MatchArm(ty) ==
    IF ty \in SupportedTypes THEN KnownArm(ty)
    ELSE Arm("todo", "none", "none", "none")

\* write!("{}", v): the Display of the decoded Rust type.
DisplayText(t, v) ==
    CASE t \in {"i16", "i32", "i64"} -> IntText(v)
      [] t = "Decimal" -> DecimalText(v)
      [] t = "NaiveDate" -> DateText(v)
      [] t = "NaiveTime" -> TimeText(v)
      [] t = "NaiveDateTime" -> DateTimeText(v)
      [] t = "String" -> v

\* write!("{}", $convert(v)), and write!("{}", v) for the variant without a
\* converter.
ValueText(arm, v) ==
    CASE arm.convert = "bool_to_str" -> bool_to_str(v)
      [] arm.convert = "varchar_to_str" -> varchar_to_str(v)
      [] arm.convert = "float4_to_str" -> float4_to_str(v)
      [] arm.convert = "float8_to_str" -> float8_to_str(v)
      [] OTHER -> DisplayText(arm.t, v)

\* single_process writing nothing for None.
single_process_null_as_empty(arm, value) ==
    IF value = None THEN <<>> ELSE ValueText(arm, value[1])

\* single_process, four- and five-argument variants.
single_process(arm, value) ==
    IF value = None THEN T_NULL ELSE ValueText(arm, value[1])

\* A comma after every element, the last included.
CommaAfterEvery(i, n) == <<",">>

\* The comma written after element i (1-based) of an array of n elements:
\* `if i < value.len() - 1` over the 0-based index.
CommaAfter(i, n) == IF i - 1 < n - 1 THEN <<",">> ELSE <<>>

RECURSIVE ArrayElems(_, _, _)
\* The loop of array_process from element i on.
ArrayElems(arm, value, i) ==
    IF i > Len(value) THEN <<>>
    ELSE (IF value[i] = None THEN T_NULL ELSE ValueText(arm, value[i][1]))
         \o CommaAfter(i, Len(value))
         \o ArrayElems(arm, value, i + 1)

\* array_process, four- and five-argument variants.
array_process(arm, value) ==
    IF value = None THEN T_NULL
    ELSE <<"{">> \o ArrayElems(arm, value[1], 1) \o <<"}">>

\* format!("select ($1::{})::varchar", stringify!($ty_name))
CastSql(tyname) == <<"select ($1::", tyname, ")::varchar">>

(***************************************************************************)
(* The database: decoded values, result sets and the server-side cast      *)
(***************************************************************************)
\* Decoded non-NULL values of each scalar type.
ScalarVals(ety) ==
    CASE ety \in {"INT2", "INT4", "INT8"} -> {-12, 0, 305}
      [] ety = "NUMERIC" ->
            {[mant |-> -150, scale |-> 2], [mant |-> 7, scale |-> 0],
             [mant |-> 5, scale |-> 3]}
      [] ety = "DATE" -> {[y |-> 2021, m |-> 3, d |-> 14], [y |-> 987, m |-> 12, d |-> 1]}
      [] ety = "TIME" -> {[h |-> 0, mi |-> 0, s |-> 0], [h |-> 23, mi |-> 5, s |-> 59]}
      [] ety = "TIMESTAMP" ->
            {[date |-> [y |-> 2021, m |-> 3, d |-> 14], time |-> [h |-> 1, mi |-> 2, s |-> 3]]}
      [] ety = "BOOL" -> BOOLEAN
      [] ety \in {"VARCHAR", "TEXT"} ->
            {<<>>, <<"a">>, <<"a", " ", "b">>, <<"x", "\n">>, T_NULL}
      [] ety \in {"FLOAT4", "FLOAT8"} ->
            {[k |-> "nan", mant |-> 0, scale |-> 0], [k |-> "inf", mant |-> 0, scale |-> 0],
             [k |-> "ninf", mant |-> 0, scale |-> 0], [k |-> "fin", mant |-> 15, scale |-> 1],
             [k |-> "fin", mant |-> -2, scale |-> 0]}
      [] ety = "INTERVAL" ->
            {[months |-> 0, days |-> 1, secs |-> 0], [months |-> 0, days |-> 0, secs |-> 0]}
      [] ety = "TIMESTAMPTZ" ->
            {[date |-> [y |-> 2021, m |-> 3, d |-> 14], time |-> [h |-> 1, mi |-> 2, s |-> 3]]}
      [] OTHER -> {<<"r", "a", "w">>}

SeqsUpTo(S, n) == UNION {[1..k -> S] : k \in 0..n}

\* The values a column of type ty can hold: Option<T> or Option<Vec<Option<T>>>.
CellVals(ty) ==
    IF ty \in ArrayTypes
    THEN Opt(SeqsUpTo(Opt(ScalarVals(ElemOf[ty])), MaxElems))
    ELSE Opt(ScalarVals(ty))

\* One representative non-NULL value of a scalar type.
OneVal(ety) ==
    CASE ety \in {"VARCHAR", "TEXT"} -> <<"a", " ", "b">>
      [] ety = "INTERVAL" -> [months |-> 0, days |-> 1, secs |-> 0]
      [] ety \in {"INT2", "INT4", "INT8"} -> 305
      [] OTHER -> CHOOSE v \in ScalarVals(ety) : TRUE

\* The values of the multi-row result sets: NULL and one non-NULL value (for
\* an array, MaxElems elements of which the third is NULL); one value for a
\* type that run never decodes.
FewVals(ty) ==
    IF ty \in ArrayTypes
    THEN {None, Some([i \in 1..MaxElems |->
                        IF i = 3 THEN None ELSE Some(OneVal(ElemOf[ty]))])}
    ELSE IF ty \in ScalarTypes THEN {None, Some(OneVal(ty))}
    ELSE {Some(OneVal(ty))}

\* Column types of the multi-row, multi-column result sets.
SmallTypes == {"INT4", "TIMESTAMPTZ_ARRAY", "JSONB"}

RECURSIVE RowsOver(_, _)
\* All rows over the column types tys; few selects the two-valued domains.
RowsOver(tys, few) ==
    IF tys = <<>> THEN {<<>>}
    ELSE {<<v>> \o rest :
            v \in (IF few THEN FewVals(Head(tys)) ELSE CellVals(Head(tys))),
            rest \in RowsOver(Tail(tys), few)}

\* The result sets a statement can return, as [cols, rows, few]: one cell of
\* any type with any value, or up to MaxRows rows of up to MaxCols columns
\* of the small types.
ColumnLists ==
    {[cols |-> <<ty>>, n |-> 1, few |-> FALSE] : ty \in AllTypes}
    \cup {[cols |-> tys, n |-> MaxRows, few |-> TRUE] :
            tys \in SeqsUpTo(SmallTypes, MaxCols)}

\* The statement whose results range over every result set of the model;
\* the other statements return one of two small result sets.
SelectSql == <<"s", "e", "l", "e", "c", "t", " ", "1">>

TinyLists == {[cols |-> <<"INT4">>, n |-> 1, few |-> TRUE]}

ResultShapes(s) == IF s = SelectSql THEN ColumnLists ELSE TinyLists

\* The result sets the primary query in flight can be answered with.
QueryResults ==
    IF pc = "await_primary" THEN ResultShapes(sql) ELSE {}

ResultRows(shape) == SeqsUpTo(RowsOver(shape.cols, shape.few), shape.n)

\* Postgres' text of an interval (postgres style): "1 day", "00:00:00", ...
IntervalText(iv) ==
    LET mon == IF iv.months = 0 THEN <<>>
               ELSE NatText(iv.months) \o <<" ", "m", "o", "n">>
                    \o (IF iv.months = 1 THEN <<>> ELSE <<"s">>)
        day == IF iv.days = 0 THEN <<>>
               ELSE NatText(iv.days) \o <<" ", "d", "a", "y">>
                    \o (IF iv.days = 1 THEN <<>> ELSE <<"s">>)
        tim == IF iv.secs = 0 /\ (iv.months # 0 \/ iv.days # 0) THEN <<>>
               ELSE TimeText([h |-> iv.secs \div 3600, mi |-> (iv.secs \div 60) % 60,
                              s |-> iv.secs % 60])
        j1  == IF mon # <<>> /\ day # <<>> THEN mon \o <<" ">> \o day ELSE mon \o day
    IN  IF j1 # <<>> /\ tim # <<>> THEN j1 \o <<" ">> \o tim ELSE j1 \o tim

\* The server's `($1::<type>)::varchar` of a bound value (session zone UTC).
PgCast(tyname, v) ==
    IF tyname = "INTERVAL" THEN IntervalText(v)
    ELSE DateTimeText(v) \o <<"+", "0", "0">>

(***************************************************************************)
(* Statement classification                                                *)
(***************************************************************************)
UpperCase == <<"A", "B", "C", "D", "E", "F", "G", "H", "I", "J", "K", "L", "M",
               "N", "O", "P", "Q", "R", "S", "T", "U", "V", "W", "X", "Y", "Z">>

LowerCase == <<"a", "b", "c", "d", "e", "f", "g", "h", "i", "j", "k", "l", "m",
               "n", "o", "p", "q", "r", "s", "t", "u", "v", "w", "x", "y", "z">>

\* u8::to_ascii_lowercase: A-Z to a-z, every other character unchanged.
char_to_ascii_lowercase(ch) ==
    IF \E i \in DOMAIN UpperCase : UpperCase[i] = ch
    THEN LowerCase[CHOOSE i \in DOMAIN UpperCase : UpperCase[i] = ch]
    ELSE ch

to_ascii_lowercase(s) == [i \in DOMAIN s |-> char_to_ascii_lowercase(s[i])]

starts_with(s, prefix) ==
    Len(prefix) <= Len(s) /\ SubSeq(s, 1, Len(prefix)) = prefix

\* is_query_sql without the lower-casing.
is_query_sql_case_sensitive(s) ==
    \/ starts_with(s, <<"s", "e", "l", "e", "c", "t">>)
    \/ starts_with(s, <<"v", "a", "l", "u", "e", "s">>)
    \/ starts_with(s, <<"s", "h", "o", "w">>)
    \/ starts_with(s, <<"w", "i", "t", "h">>)
    \/ starts_with(s, <<"d", "e", "s", "c", "r", "i", "b", "e">>)

is_query_sql(s) ==
    LET lower_sql == to_ascii_lowercase(s)
    IN  \/ starts_with(lower_sql, <<"s", "e", "l", "e", "c", "t">>)
        \/ starts_with(lower_sql, <<"v", "a", "l", "u", "e", "s">>)
        \/ starts_with(lower_sql, <<"s", "h", "o", "w">>)
        \/ starts_with(lower_sql, <<"w", "i", "t", "h">>)
        \/ starts_with(lower_sql, <<"d", "e", "s", "c", "r", "i", "b", "e">>)

\* The statements the harness submits.
SqlTexts ==
    {SelectSql,
     <<"S", "E", "L", "E", "C", "T", " ", "1">>,
     <<"S", "e", "l", "e", "c", "T">>,
     <<"s", "e", "l", "e", "c">>,
     <<" ", "s", "e", "l", "e", "c", "t">>,
     <<"v", "a", "l", "u", "e", "s", "(", "1", ")">>,
     <<"V", "a", "L", "u", "E", "s">>,
     <<"s", "h", "o", "w", " ", "a">>,
     <<"S", "H", "O", "W">>,
     <<"W", "i", "t", "h", " ", "x">>,
     <<"w", "i", "t">>,
     <<"d", "e", "s", "c", "r", "i", "b", "e", " ", "t">>,
     <<"D", "E", "S", "C", "R", "I", "B", "E">>,
     <<"d", "e", "s", "c">>,
     <<"i", "n", "s", "e", "r", "t">>,
     <<"U", "P", "D", "A", "T", "E">>,
     <<"e", "x", "p", "l", "a", "i", "n", " ", "s", "e", "l", "e", "c", "t">>,
     <<>>}

(***************************************************************************)
(* run: the future of one call, advanced from one .await to the next       *)
(***************************************************************************)
NoResult == [kind |-> "none", text |-> <<>>, err |-> "none"]

Ok(text) == [kind |-> "Ok", text |-> text, err |-> "none"]

Err(e) == [kind |-> "Err", text |-> <<>>, err |-> e]

\* unwrap() of an Err or a None, assert!, todo!: the call unwinds, no value
\* is returned.
Panic == [kind |-> "Panic", text |-> <<>>, err |-> "none"]

StartPos == [r |-> 1, c |-> 1, e |-> 0]

\* The state of the future of run.
Locals ==
    [pc |-> pc, pos |-> pos, output |-> output, result |-> result, log |-> log,
     outstanding |-> outstanding]

Store(st) ==
    /\ pc' = st.pc
    /\ pos' = st.pos
    /\ output' = st.output
    /\ result' = st.result
    /\ log' = st.log
    /\ outstanding' = st.outstanding

\* What the session answered to a statement.
Pending == [status |-> "pending", rows |-> <<>>, err |-> "none"]

Replied(rs) == [status |-> "ok", rows |-> rs, err |-> "none"]

Failed(e) == [status |-> "err", rows |-> <<>>, err |-> e]

\* A statement handed to the client: it is recorded and is in flight.
Submit(st, call, text, params) ==
    [st EXCEPT
        !.log = Append(@, [call |-> call, sql |-> text, params |-> params,
                           at |-> st.pos, run |-> nruns, reply |-> Pending]),
        !.outstanding = Append(@, Len(st.log) + 1)]

\* The oldest statement in flight completes with a reply.
Complete(st, reply) ==
    [st EXCEPT !.log[Head(st.outstanding)].reply = reply,
               !.outstanding = Tail(@)]

\* End of one column's arm: the column loop moves to the next column.
NextColumn(st) == [st EXCEPT !.pos = [r |-> @.r, c |-> @.c + 1, e |-> 0]]

\* End of one element of an array rendered through the cast: the comma, and
\* the element loop moves on.
NextElem(st, n) ==
    [st EXCEPT !.output = @ \o CommaAfter(st.pos.e, n), !.pos.e = @ + 1]

\* The secondary statement left in flight: the loops go on without its reply.
AwaitSecondaryDetached(st) ==
    [st EXCEPT !.pos = IF @.e = 0 THEN [r |-> @.r, c |-> @.c + 1, e |-> 0]
                       ELSE [r |-> @.r, c |-> @.c, e |-> @.e + 1]]

\* `.await` on the secondary statement: the future is suspended until the
\* reply arrives.
AwaitSecondary(st) == [st EXCEPT !.pc = "await_secondary"]

\* self.client.query(&sql, &[&v]).await
CastQuery(st, ty_name, v) ==
    AwaitSecondary(Submit(st, "query", CastSql(ty_name), <<v>>))

\* The element loop of array_process, six-argument variant, at element
\* st.pos.e of the array arr.
CastArrayLoop(st, arm, arr) ==
    IF st.pos.e > Len(arr)
    THEN NextColumn([st EXCEPT !.output = @ \o <<"}">>])
    ELSE IF arr[st.pos.e] = None
    THEN NextElem([st EXCEPT !.output = @ \o T_NULL], Len(arr))
    ELSE CastQuery(st, arm.ty_name, arr[st.pos.e][1])

\* The separator written before every column, the first included.
ColumnSeparatorAlways(idx) == <<" ">>

\* `if idx != 0 { write!(output, " ") }` for the column of 0-based index idx.
ColumnSeparator(idx) == IF idx # 0 THEN <<" ">> ELSE <<>>

\* A separator written after the last column as well.
RowTerminatorAfterSpace(ncols) == <<" ", "\n">>

\* writeln!(output) after the last column of a row.
RowTerminator(ncols) == <<"\n">>

\* One iteration of the column loop: the separator, then the arm of the match.
Column(st, ty, value) ==
    LET arm == MatchArm(ty)
        s1 == [st EXCEPT !.output = @ \o ColumnSeparator(st.pos.c - 1)]
    IN  IF arm.macro = "todo"
        THEN [s1 EXCEPT !.pc = "panicked", !.result = Panic]
        ELSE IF arm.ty_name = "none"
        THEN NextColumn([s1 EXCEPT !.output = @ \o
                            (IF arm.macro = "single_process"
                             THEN single_process(arm, value)
                             ELSE array_process(arm, value))])
        ELSE IF value = None
        THEN NextColumn([s1 EXCEPT !.output = @ \o T_NULL])
        ELSE IF arm.macro = "single_process"
        THEN CastQuery(s1, arm.ty_name, value[1])
        ELSE [s1 EXCEPT !.output = @ \o <<"{">>, !.pos.e = 1]

RECURSIVE Drive(_, _, _)
\* The row and column loops of run, from the position st.pos up to the next
\* .await, the return or a panic.
Drive(st, cs, rs) ==
    IF st.pc # "render" THEN st
    ELSE IF st.pos.r > Len(rs)
    THEN [st EXCEPT !.pc = "returned", !.result = Ok(st.output)]
    ELSE IF st.pos.c > Len(cs)
    THEN Drive([st EXCEPT !.output = @ \o RowTerminator(Len(cs)),
                          !.pos = [r |-> @.r + 1, c |-> 1, e |-> 0]], cs, rs)
    ELSE IF st.pos.e > 0
    THEN Drive(CastArrayLoop(st, MatchArm(cs[st.pos.c]), rs[st.pos.r][st.pos.c][1]),
               cs, rs)
    ELSE Drive(Column(st, cs[st.pos.c], rs[st.pos.r][st.pos.c]), cs, rs)

\* `.await?` on the primary statement that failed: run returns the error.
PrimaryFailed(st, e) == [st EXCEPT !.pc = "returned", !.result = Err(e)]

\* `.await.unwrap()` on a secondary statement that failed.
SecondaryFailed(st, e) == [st EXCEPT !.pc = "panicked", !.result = Panic]

\* The lines after the secondary .await without the assertion.
AfterCastUnchecked(st, reply, cs, rs) ==
    IF reply = <<>> \/ reply[1][1] = None
    THEN [st EXCEPT !.pc = "panicked", !.result = Panic]
    ELSE LET s1 == [st EXCEPT !.pc = "render", !.output = @ \o reply[1][1][1]]
         IN  IF st.pos.e = 0 THEN NextColumn(s1)
             ELSE NextElem(s1, Len(rs[st.pos.r][st.pos.c][1]))

\* The lines after the secondary .await: the first cell of the first row,
\* the assertion, the write.  reply is the sequence of returned rows, each a
\* sequence of Option<text> cells.
AfterCast(st, reply, cs, rs) ==
    IF reply = <<>> \/ reply[1][1] = None \/ Len(reply[1][1][1]) = 0
    THEN [st EXCEPT !.pc = "panicked", !.result = Panic]
    ELSE LET s1 == [st EXCEPT !.pc = "render", !.output = @ \o reply[1][1][1]]
         IN  IF st.pos.e = 0 THEN NextColumn(s1)
             ELSE NextElem(s1, Len(rs[st.pos.r][st.pos.c][1]))

(***************************************************************************)
(* The state machine                                                       *)
(***************************************************************************)
\* The state after connect: the client, and the spawned task that awaits
\* the connection.
Init ==
    /\ handle = "live"
    /\ task = "running"
    /\ abortRequested = FALSE
    /\ pc = "idle"
    /\ sql = <<>>
    /\ cols = <<>>
    /\ rows = <<>>
    /\ pos = StartPos
    /\ output = <<>>
    /\ result = NoResult
    /\ log = <<>>
    /\ outstanding = <<>>
    /\ nruns = 0

\* The errors the session can answer with: a database error while the
\* connection is driven, "closed" once the driver task is gone.
SessionErrors == IF task = "running" THEN {"db_error"} ELSE {"closed"}

\* run(sql) up to the first .await: the classification and the primary call.
Run(s) ==
    /\ handle = "live"
    /\ pc \in {"idle", "returned"}
    /\ nruns < MaxRuns
    /\ nruns' = nruns + 1
    /\ sql' = s
    /\ cols' = <<>>
    /\ rows' = <<>>
    /\ pc' = "await_primary"
    /\ pos' = StartPos
    /\ output' = <<>>
    /\ result' = NoResult
    /\ log' = <<[call |-> IF is_query_sql(s) THEN "query" ELSE "execute",
                 sql |-> s, params |-> <<>>, at |-> [r |-> 0, c |-> 0, e |-> 0],
                 run |-> nruns + 1, reply |-> Pending]>>
    /\ outstanding' = Append(outstanding, 1)
    /\ UNCHANGED <<handle, task, abortRequested>>

\* The primary query succeeds: the rows are received and rendered up to the
\* first secondary .await, the return or a panic.
QueryOk(shape, rs) ==
    /\ handle = "live"
    /\ pc = "await_primary"
    /\ task = "running"
    /\ log[1].call = "query"
    /\ cols' = shape.cols
    /\ rows' = rs
    /\ Store(Drive([Complete(Locals, Replied(<<>>)) EXCEPT !.pc = "render"],
                   shape.cols, rs))
    /\ UNCHANGED <<handle, task, abortRequested, sql, nruns>>

\* The primary execute succeeds with a row count n, which is dropped.
ExecuteOk(n) ==
    /\ handle = "live"
    /\ pc = "await_primary"
    /\ task = "running"
    /\ log[1].call = "execute"
    /\ Store([Complete(Locals, Replied(<<>>)) EXCEPT
                !.pc = "returned", !.result = Ok(output)])
    /\ UNCHANGED <<handle, task, abortRequested, sql, cols, rows, nruns>>

\* The primary statement fails.
PrimaryErr(e) ==
    /\ handle = "live"
    /\ pc = "await_primary"
    /\ Store(PrimaryFailed(Complete(Locals, Failed(e)), e))
    /\ UNCHANGED <<handle, task, abortRequested, sql, cols, rows, nruns>>

\* A secondary statement is answered with rows.
CastOk(reply) ==
    /\ handle = "live"
    /\ pc = "await_secondary"
    /\ task = "running"
    /\ Store(Drive(AfterCast(Complete(Locals, Replied(reply)), reply, cols, rows),
                   cols, rows))
    /\ UNCHANGED <<handle, task, abortRequested, sql, cols, rows, nruns>>

\* A secondary statement fails.
CastErr(e) ==
    /\ handle = "live"
    /\ pc = "await_secondary"
    /\ Store(SecondaryFailed(Complete(Locals, Failed(e)), e))
    /\ UNCHANGED <<handle, task, abortRequested, sql, cols, rows, nruns>>

\* The value bound by the secondary statement in flight.
BoundValue == log[Head(outstanding)].params[1]

\* What the server can answer to the cast in flight: its text of the value,
\* an empty text, a NULL cell, or no row.
CastReplies ==
    IF pc # "await_secondary" THEN {}
    ELSE LET tyname == log[Head(outstanding)].sql[2]
         IN  {<< <<Some(PgCast(tyname, BoundValue))>> >>, << <<Some(<<>>)>> >>,
              << <<None>> >>, <<>>}

\* The spawned task: connection.await ends with an error, which is logged.
ConnectionError ==
    /\ task = "running"
    /\ task' = "finished"
    /\ UNCHANGED <<handle, abortRequested, pc, sql, cols, rows, pos, output,
                   result, log, outstanding, nruns>>

\* A drop that leaves the task alone.
abort_forgotten(t) == FALSE

\* JoinHandle::abort: the cancellation is requested; it has no effect on a
\* task that has finished.
abort(t) == TRUE

\* Drop for PostgresExtended.  A future of run that is suspended at an .await
\* is dropped with the handle it borrows; the statements in flight are
\* abandoned, and nothing of the last call outlives the engine.
Drop ==
    /\ handle = "live"
    /\ handle' = "dropped"
    /\ abortRequested' = abort(task)
    /\ pc' = IF pc \in {"await_primary", "await_secondary"} THEN "cancelled" ELSE pc
    /\ sql' = <<>>
    /\ cols' = <<>>
    /\ rows' = <<>>
    /\ pos' = StartPos
    /\ output' = <<>>
    /\ result' = NoResult
    /\ log' = <<>>
    /\ UNCHANGED <<task, outstanding, nruns>>

\* The runtime cancels the task whose abort was requested.
TaskCancelled ==
    /\ abortRequested
    /\ task = "running"
    /\ task' = "cancelled"
    /\ UNCHANGED <<handle, abortRequested, pc, sql, cols, rows, pos, output,
                   result, log, outstanding, nruns>>

Next ==
    \/ \E s \in SqlTexts : Run(s)
    \/ \E shape \in QueryResults : \E rs \in ResultRows(shape) : QueryOk(shape, rs)
    \/ \E n \in 0..1 : ExecuteOk(n)
    \/ \E e \in SessionErrors : PrimaryErr(e)
    \/ \E reply \in CastReplies : CastOk(reply)
    \/ \E e \in SessionErrors : CastErr(e)
    \/ ConnectionError
    \/ Drop
    \/ TaskCancelled

Spec == Init /\ [][Next]_vars

\* The runtime schedules a cancelled task: it is dropped at its next poll.
LiveSpec == Spec /\ WF_vars(TaskCancelled)

(***************************************************************************)
(* Properties                                                              *)
(***************************************************************************)
\* run returned Ok after a primary query.
QueryReturnedOk ==
    pc = "returned" /\ result.kind = "Ok" /\ log[1].call = "query"

RECURSIVE JoinWith(_, _)
\* The texts of a sequence with sep between adjacent ones.
JoinWith(texts, sep) ==
    IF texts = <<>> THEN <<>>
    ELSE IF Len(texts) = 1 THEN texts[1]
    ELSE texts[1] \o sep \o JoinWith(Tail(texts), sep)

RECURSIVE Flatten(_)
Flatten(texts) == IF texts = <<>> THEN <<>> ELSE texts[1] \o Flatten(Tail(texts))

\* The number of occurrences of the character ch in a text.
CountOf(ch, text) == Cardinality({i \in DOMAIN text : text[i] = ch})

\* The text the session returned for the cast of the value at a position.
ReplyAt(r, c, e) ==
    LET i == CHOOSE i \in DOMAIN log : log[i].at = [r |-> r, c |-> c, e |-> e]
    IN  log[i].reply.rows[1][1][1]

\* Whether the column type is rendered through the secondary cast.
IsCastType(ty) == ty \in {"INTERVAL", "TIMESTAMPTZ", "INTERVAL_ARRAY", "TIMESTAMPTZ_ARRAY"}

\* The text of the scalar value v of type ety at a position: the token NULL,
\* the cast's reply, or the scalar rule of the type.
ElemTextAt(ety, v, r, c, e) ==
    IF v = None THEN T_NULL
    ELSE IF IsCastType(ety) THEN ReplyAt(r, c, e)
    ELSE single_process(MatchArm(ety), v)

\* The text of column c of row r, as the specification describes it.
ColumnTextAt(r, c) ==
    LET ty == cols[c]
        v == rows[r][c]
    IN  IF v = None THEN T_NULL
        ELSE IF ty \in ArrayTypes
        THEN <<"{">>
             \o JoinWith([e \in 1..Len(v[1]) |-> ElemTextAt(ElemOf[ty], v[1][e], r, c, e)],
                         <<",">>)
             \o <<"}">>
        ELSE ElemTextAt(ty, v, r, c, 0)

LineOf(r) ==
    JoinWith([c \in 1..Len(cols) |-> ColumnTextAt(r, c)], <<" ">>) \o <<"\n">>

Keywords ==
    {<<"s", "e", "l", "e", "c", "t">>, <<"v", "a", "l", "u", "e", "s">>,
     <<"s", "h", "o", "w">>, <<"w", "i", "t", "h">>,
     <<"d", "e", "s", "c", "r", "i", "b", "e">>}

\* Two characters that are the same letter in either case, or the same
\* character.
SameIgnoringCase(a, b) ==
    \/ a = b
    \/ \E i \in DOMAIN UpperCase :
          {a, b} = {UpperCase[i], LowerCase[i]}

\* s begins with the keyword k in any mix of letter cases.
BeginsWith(s, k) ==
    Len(k) <= Len(s) /\ \A i \in 1..Len(k) : SameIgnoringCase(s[i], k[i])

\* C1: run(s) issues exactly one primary call, with the text s and no
\* parameters; it is a query if and only if s begins, in any letter case,
\* with select, values, show, with or describe, and an execute otherwise,
\* after which a successful run returns the empty string.
C1_OnePrimaryCallByKeyword ==
    (handle = "live" /\ pc # "idle") =>
        /\ Cardinality({i \in DOMAIN log : log[i].params = <<>>}) = 1
        /\ log[1].sql = sql /\ log[1].params = <<>>
        /\ log[1].call \in {"query", "execute"}
        /\ log[1].call = "query" <=> \E k \in Keywords : BeginsWith(sql, k)
        /\ (log[1].call = "execute" /\ pc = "returned" /\ result.kind = "Ok") =>
              (result.text = <<>> /\ Len(log) = 1)

\* A statement in mixed letter case was classified as a query and returned.
C1_Witness ==
    /\ QueryReturnedOk
    /\ sql = <<"W", "i", "t", "h", " ", "x">>
    /\ result.text # <<>>

\* C2: the text returned after a successful query is the concatenation, in
\* the order of the rows, of one line per row: the column texts in column
\* order joined by single spaces, ended by one newline; no rows, no text.
C2_RowsRenderedInOrder ==
    QueryReturnedOk =>
        /\ result.text = Flatten([r \in 1..Len(rows) |-> LineOf(r)])
        /\ rows = <<>> => result.text = <<>>

\* Two rows of two columns were rendered.
C2_Witness ==
    /\ QueryReturnedOk
    /\ Len(rows) = 2 /\ Len(cols) = 2
    /\ rows[1] # rows[2]
    /\ rows[1][1] # None /\ rows[1][2] # None

\* The result set is one row of one column.
OneCell == Len(rows) = 1 /\ Len(cols) = 1

RECURSIVE SplitCommas(_)
\* The pieces of a text between its commas.
SplitCommas(text) ==
    IF \A i \in DOMAIN text : text[i] # ","
    THEN <<text>>
    ELSE LET i == CHOOSE i \in DOMAIN text :
                     text[i] = "," /\ \A j \in 1..(i - 1) : text[j] # ","
         IN  <<SubSeq(text, 1, i - 1)>> \o SplitCommas(SubSeq(text, i + 1, Len(text)))

\* The positions at which run issued a secondary statement.
CastPositions == {log[i].at : i \in 2..Len(log)}

\* C3: a NULL column of any supported type, scalar or array, is rendered as
\* the token NULL, a NULL element of a non-NULL array is rendered as NULL
\* between the braces, and no secondary statement is issued for a NULL.
C3_NullIsRenderedAsNULL ==
    QueryReturnedOk =>
        /\ \A r \in DOMAIN rows : \A c \in DOMAIN cols :
              /\ rows[r][c] = None =>
                    \A p \in CastPositions : ~(p.r = r /\ p.c = c)
              /\ (rows[r][c] # None /\ cols[c] \in ArrayTypes) =>
                    \A e \in DOMAIN rows[r][c][1] :
                        rows[r][c][1][e] = None =>
                            [r |-> r, c |-> c, e |-> e] \notin CastPositions
        /\ (OneCell /\ rows[1][1] = None) => result.text = T_NULL \o <<"\n">>
        /\ (OneCell /\ rows[1][1] # None /\ cols[1] \in ArrayTypes) =>
              LET n == Len(result.text)
                  inner == SubSeq(result.text, 2, n - 2)
              IN  /\ result.text[1] = "{" /\ result.text[n - 1] = "}"
                  /\ \A e \in DOMAIN rows[1][1][1] :
                        rows[1][1][1][e] = None => SplitCommas(inner)[e] = T_NULL

\* An array of a round-trip type with a NULL and a non-NULL element was
\* rendered.
C3_Witness ==
    /\ QueryReturnedOk /\ OneCell
    /\ cols[1] = "INTERVAL_ARRAY"
    /\ rows[1][1] # None
    /\ Len(rows[1][1][1]) = 2
    /\ rows[1][1][1][1] = None /\ rows[1][1][1][2] # None

\* C4: a non-NULL array of n elements is rendered as an opening brace, the
\* n element texts in order with n-1 commas between them, and a closing
\* brace; a non-NULL element is rendered as a scalar column of the element
\* type is, a NULL element as NULL.
C4_ArrayBracesAndCommas ==
    (QueryReturnedOk /\ OneCell /\ cols[1] \in ArrayTypes /\ rows[1][1] # None) =>
        LET arr == rows[1][1][1]
            n == Len(arr)
            ety == ElemOf[cols[1]]
            elems == [e \in 1..n |-> ElemTextAt(ety, arr[e], 1, 1, e)]
        IN  /\ result.text = <<"{">> \o JoinWith(elems, <<",">>) \o <<"}">> \o <<"\n">>
            /\ CountOf(",", result.text) = (IF n = 0 THEN 0 ELSE n - 1)
            /\ \A i \in 2..Len(log) : log[i].sql = CastSql(MatchArm(ety).ty_name)

\* A text array with an empty text and a NULL element was rendered.
C4_Witness ==
    /\ QueryReturnedOk /\ OneCell
    /\ cols[1] = "TEXT_ARRAY"
    /\ rows[1][1] = Some(<<Some(<<>>), None>>)
    /\ result.text = <<"{">> \o T_empty \o <<",">> \o T_NULL \o <<"}", "\n">>

\* C5: a failure the session returns for any statement of run, the primary
\* call or a secondary cast, is the Err result of run.
C5_SessionFailureIsReturnedAsErr ==
    (handle = "live" /\ pc \in {"returned", "panicked"}) =>
        \A i \in DOMAIN log :
            log[i].reply.status = "err" =>
                (result.kind = "Err" /\ result.err = log[i].reply.err)

\* The separators run itself writes for the rows received.
SeparatorsWritten == Len(rows) * (IF Len(cols) = 0 THEN 0 ELSE Len(cols) - 1)

\* C6 as stated: no column text holds a space or a newline, so the spaces
\* of the returned text are the separators and its newlines the row ends.
C6_NoDelimiterInsideColumnText ==
    QueryReturnedOk =>
        /\ CountOf(" ", result.text) = SeparatorsWritten
        /\ CountOf("\n", result.text) = Len(rows)

\* The types whose texts hold neither a space nor a newline.
DelimiterFreeTypes ==
    {"INT2", "INT4", "INT8", "NUMERIC", "DATE", "TIME", "BOOL", "FLOAT4", "FLOAT8",
     "INT2_ARRAY", "INT4_ARRAY", "INT8_ARRAY", "NUMERIC_ARRAY", "DATE_ARRAY",
     "TIME_ARRAY", "BOOL_ARRAY", "FLOAT4_ARRAY", "FLOAT8_ARRAY"}

AllColumnTexts ==
    Flatten([r \in 1..Len(rows) |->
                Flatten([c \in 1..Len(cols) |-> ColumnTextAt(r, c)])])

\* C6, amended: run writes k-1 spaces and one newline per row of k columns
\* and no other delimiter of its own; the remaining spaces and newlines of
\* the returned text are those inside the column texts, and there are none
\* when every column is NULL or of an integer, numeric, boolean, float, date
\* or time type or an array of one.
C6_DelimitersWrittenOnlyBetweenColumns ==
    QueryReturnedOk =>
        /\ CountOf(" ", result.text) = SeparatorsWritten + CountOf(" ", AllColumnTexts)
        /\ CountOf("\n", result.text) = Len(rows) + CountOf("\n", AllColumnTexts)
        /\ (\A r \in DOMAIN rows : \A c \in DOMAIN cols :
                rows[r][c] = None \/ cols[c] \in DelimiterFreeTypes) =>
              /\ CountOf(" ", result.text) = SeparatorsWritten
              /\ CountOf("\n", result.text) = Len(rows)

\* A row of an integer and of an array of zoned timestamps was rendered: one
\* separator, and the spaces of the timestamps.
C6_Witness ==
    /\ QueryReturnedOk
    /\ cols = <<"INT4", "TIMESTAMPTZ_ARRAY">>
    /\ Len(rows) = 1
    /\ rows[1][1] # None /\ rows[1][2] # None
    /\ CountOf(" ", result.text) > SeparatorsWritten

\* C7: when a returned row has a column of a type outside the supported set,
\* run does not return: it panics, at that column unless a secondary
\* statement made it panic before.
C7_UnsupportedTypeAborts ==
    (/\ handle = "live" /\ pc \in {"returned", "panicked"}
     /\ log # <<>> /\ log[1].call = "query" /\ log[1].reply.status = "ok"
     /\ rows # <<>>
     /\ \E c \in DOMAIN cols : cols[c] \notin SupportedTypes) =>
        /\ pc = "panicked" /\ result.kind = "Panic" /\ result.text = <<>>
        /\ Len(log) = 1 =>
              /\ cols[pos.c] \notin SupportedTypes
              /\ \A c \in 1..(pos.c - 1) : cols[c] \in SupportedTypes
              /\ pos.r = 1

\* run panicked at an unsupported second column after it had rendered the
\* first.
C7_Witness ==
    /\ pc = "panicked"
    /\ cols = <<"INT4", "JSONB">>
    /\ Len(rows) = 2
    /\ pos.r = 1 /\ pos.c = 2
    /\ output = <<"3", "0", "5", " ">>
    /\ result.kind = "Panic"

\* Position a comes before position b in row, then column, then element
\* order.
Before(a, b) ==
    \/ a.r < b.r
    \/ a.r = b.r /\ a.c < b.c
    \/ a.r = b.r /\ a.c = b.c /\ a.e < b.e

\* C8: at most one statement is in flight on the connection; statements
\* complete in the order submitted; a secondary statement is issued only
\* after the primary result was received and the previous secondary was
\* answered, in row, column, element order; nothing is in flight when run
\* has returned, so no statement of a later run overlaps it.
C8_OneStatementInFlightInOrder ==
    /\ Len(outstanding) <= 1
    /\ pc \in {"idle", "returned", "panicked"} => outstanding = <<>>
    /\ handle = "live" =>
          /\ \A i \in DOMAIN log :
                /\ log[i].run = nruns
                /\ log[i].reply.status = "pending" =>
                      (i = Len(log) /\ outstanding = <<i>>)
          /\ \A i \in 2..Len(log) : log[1].reply.status = "ok"
          /\ \A i \in 2..Len(log) : \A j \in 2..Len(log) :
                i < j => Before(log[i].at, log[j].at)

\* Secondary statements of two rows, two columns and two elements of one
\* array were issued by one run.
C8_Witness ==
    /\ QueryReturnedOk
    /\ Len(log) > 4
    /\ \E i \in 2..Len(log) : \E j \in 2..Len(log) :
          log[i].at.r = log[j].at.r /\ log[i].at.c = log[j].at.c
          /\ log[i].at.e < log[j].at.e
    /\ \E i \in 2..Len(log) : \E j \in 2..Len(log) :
          log[i].at.r = log[j].at.r /\ log[i].at.c < log[j].at.c
    /\ \E i \in 2..Len(log) : \E j \in 2..Len(log) : log[i].at.r < log[j].at.r

\* C9: dropping the handle is always possible at once, whatever the task
\* and the statements in flight are doing; it requests the abort of the
\* driver task and waits for nothing, and the task then no longer runs:
\* it is cancelled, or it had finished before.
C9_ReleaseAbortsWithoutWaiting ==
    /\ [](handle = "dropped" => abortRequested)
    /\ [](handle = "live" => ENABLED Drop)
    /\ [][(handle = "live" /\ handle' = "dropped") =>
            (task' = task /\ outstanding' = outstanding /\ nruns' = nruns)]_vars
    /\ (handle = "dropped") ~> (task \in {"cancelled", "finished"})

\* The handle was dropped with its second statement in flight, and the task
\* was cancelled.
C9_Witness ==
    /\ handle = "dropped"
    /\ task = "cancelled"
    /\ outstanding # <<>>
    /\ nruns = 2

\* The positions of the non-NULL values of the two round-trip types.
ExpectedCastPositions ==
    {p \in [r : DOMAIN rows, c : DOMAIN cols, e : 0..MaxElems + 1] :
        /\ IsCastType(cols[p.c])
        /\ rows[p.r][p.c] # None
        /\ IF cols[p.c] \in ArrayTypes
           THEN p.e \in DOMAIN rows[p.r][p.c][1] /\ rows[p.r][p.c][1][p.e] # None
           ELSE p.e = 0}

ValueAtPos(p) ==
    IF p.e = 0 THEN rows[p.r][p.c][1] ELSE rows[p.r][p.c][1][p.e][1]

TypeNameAt(p) ==
    IF cols[p.c] \in ArrayTypes THEN ElemOf[cols[p.c]] ELSE cols[p.c]

\* The reply has a first row whose first cell is a non-empty text.
GoodReply(rep) ==
    /\ rep.status = "ok"
    /\ rep.rows # <<>>
    /\ rep.rows[1][1] # None
    /\ rep.rows[1][1][1] # <<>>

\* C10: run issues one secondary query per non-NULL interval or zoned
\* timestamp value, scalar or array element, and none for any other value;
\* the query is 'select ($1::<type>)::varchar' with the value as its only
\* parameter; the text of the first cell of the first row is written as
\* returned, and run panics when there is no row or the text is empty.
C10_OneCastQueryPerRoundTripValue ==
    (handle = "live" /\ log # <<>>) =>
        /\ \A i \in 2..Len(log) :
              /\ log[i].at \in ExpectedCastPositions
              /\ log[i].call = "query"
              /\ log[i].sql = <<"select ($1::", TypeNameAt(log[i].at), ")::varchar">>
              /\ log[i].params = <<ValueAtPos(log[i].at)>>
              /\ \A j \in 2..Len(log) : i # j => log[i].at # log[j].at
              /\ (log[i].reply.status = "ok" /\ ~GoodReply(log[i].reply)) =>
                    (pc = "panicked" /\ result.kind = "Panic")
        /\ QueryReturnedOk =>
              /\ CastPositions = ExpectedCastPositions
              /\ \A i \in 2..Len(log) : GoodReply(log[i].reply)
        /\ (QueryReturnedOk /\ OneCell /\ cols[1] \in {"INTERVAL", "TIMESTAMPTZ"}
            /\ rows[1][1] # None) =>
              result.text = log[2].reply.rows[1][1][1] \o <<"\n">>

\* An interval column was rendered with the text the cast returned.
C10_Witness ==
    /\ QueryReturnedOk /\ OneCell
    /\ cols[1] = "INTERVAL"
    /\ rows[1][1] # None
    /\ Len(log) = 2
    /\ result.text = <<"1", " ", "d", "a", "y", "\n">>

====
